---- MODULE Spec2Model ----
(***************************************************************************)
(* The crossword engine of src/src/App.jsx (useCrossword): the numbering   *)
(* derived from the black/white layout, and the solving state (cells, dir, *)
(* focus) as it is changed by the key handler, cell clicks and clue clicks.*)
(***************************************************************************)
EXTENDS Integers, Sequences, FiniteSets, TLC

\* ------------------------------------------------------------------ bounds
\* Largest number of grid cells (width * height) of a puzzle.
MaxCells == 5
\* Largest number of letters in the grid that were typed by key.
MaxLetters == 1
\* Largest number of grid cells of a puzzle that comes with a solution.
MaxSolveCells == 4
\* Largest number of grid cells of a layout whose numbering is examined.
MaxLayoutCells == 9
\* Largest number of grid cells of a puzzle played with every operation.
MaxPlayCells == 4
\* Largest width and largest height of a puzzle written to a file.
MaxFileSide == 2
\* Largest number of clue fields written to a file.
MaxClueFields == 4

\* ------------------------------------------------------- values of the code
\* JavaScript null / undefined (an unset focus, a cell without a number, an
\* array read past its end, a Map miss).
Null == -1

\* The keys the model presses: the handled ones, two letters (one lower
\* case, one upper case) and one key handleKey does not handle.
ArrowKeys == {"ArrowLeft", "ArrowRight", "ArrowUp", "ArrowDown"}
LetterKeys == {"a", "B"}
Keys == ArrowKeys \cup LetterKeys \cup {" ", "Tab", "Enter", "Backspace", "Delete", "Escape"}

Dirs == {"across", "down"}

\* The router of a shell that is given its puzzle as a prop: nothing to load.
Direct == [phase |-> "direct"]

VARIABLES
  router,     \* AppRouter: the load of a puzzle file, or Direct when the puzzle is a prop
  puzzle,     \* the puzzle prop: [width, height, grid] and the optional field
              \* solution; grid and solution are the flat arrays
  numbering,  \* useMemo(buildNumbering(flatGrid, W, H))
  cells,      \* useState: the entered letters, "#" on black cells
  dir,        \* useState: "across" | "down"
  focus,      \* useState: a cell index or Null
  mounted,    \* whether the effects of the first render have run
  last        \* the last operation, its arguments, and the letter that was under the focus

vars == <<router, puzzle, numbering, cells, dir, focus, mounted, last>>

W == puzzle.width
H == puzzle.height
flatGrid == puzzle.grid
\* `!flatSol`: the puzzle has no solution field
noSol == "solution" \notin DOMAIN puzzle
\* flatSol of a puzzle that has a solution
flatSol == puzzle.solution

\* ---------------------------------------------------------------- numbering
\* grid[i] === '#'; an index outside the array reads undefined, which is not '#'
isBlack(grid, i) == i \in DOMAIN grid /\ grid[i] = "#"

\* the across walk without its `cc < w` test: it runs on into the next row
RECURSIVE acrossRunOverEdge(_, _, _, _)
acrossRunOverEdge(grid, w, r, cc) ==
  IF r * w + cc \in DOMAIN grid /\ ~isBlack(grid, r * w + cc)
    THEN <<r * w + cc>> \o acrossRunOverEdge(grid, w, r, cc + 1)
    ELSE <<>>

\* the `while (cc < w && !isBlack(r * w + cc))` walk of an across run
RECURSIVE acrossRun(_, _, _, _)
acrossRun(grid, w, r, cc) ==
  IF cc < w /\ ~isBlack(grid, r * w + cc)
    THEN <<r * w + cc>> \o acrossRun(grid, w, r, cc + 1)
    ELSE <<>>

\* the down walk that stops after two cells
downRunPair(grid, w, h, rr, c) == <<rr * w + c, (rr + 1) * w + c>>

\* the `while (rr < h && !isBlack(rr * w + c))` walk of a down run
RECURSIVE downRun(_, _, _, _, _)
downRun(grid, w, h, rr, c) ==
  IF rr < h /\ ~isBlack(grid, rr * w + c)
    THEN <<rr * w + c>> \o downRun(grid, w, h, rr + 1, c)
    ELSE <<>>

startA(grid, w, i) ==
  LET c == i % w
  IN  (c = 0 \/ isBlack(grid, i - 1)) /\ (c + 1 < w /\ ~isBlack(grid, i + 1))

\* the down test that only looks at the top row
startDTopRow(grid, w, h, i) ==
  LET r == i \div w
  IN  r = 0 /\ (r + 1 < h /\ ~isBlack(grid, i + w))

startD(grid, w, h, i) ==
  LET r == i \div w
  IN  (r = 0 \/ isBlack(grid, i - w)) /\ (r + 1 < h /\ ~isBlack(grid, i + w))

\* One iteration of the row-major double loop, on cell i = r * w + c.
numberCell(grid, w, h, i, acc) ==
  IF isBlack(grid, i) THEN acc
  ELSE
    LET sA == startA(grid, w, i)
        sD == startD(grid, w, h, i)
        n  == IF sA \/ sD THEN acc.curNum ELSE Null
    IN  [ numbers      |-> [acc.numbers EXCEPT ![i] = n],
          startsAcross |-> [acc.startsAcross EXCEPT ![i] = sA],
          startsDown   |-> [acc.startsDown EXCEPT ![i] = sD],
          mapAcross    |-> IF sA THEN (n :> acrossRun(grid, w, i \div w, i % w)) @@ acc.mapAcross
                                 ELSE acc.mapAcross,
          mapDown      |-> IF sD THEN (n :> downRun(grid, w, h, i \div w, i % w)) @@ acc.mapDown
                                 ELSE acc.mapDown,
          curNum       |-> IF sA \/ sD THEN acc.curNum + 1 ELSE acc.curNum ]

\* The double loop, from cell i on, in row-major order.  (The test on curNum,
\* which starts at 1 and only grows, has TLC evaluate each iteration before
\* the next instead of nesting them all.)
RECURSIVE numberFrom(_, _, _, _, _)
numberFrom(grid, w, h, i, acc) ==
  IF i >= w * h THEN acc
  ELSE LET next == numberCell(grid, w, h, i, acc)
       IN  IF next.curNum > 0 THEN numberFrom(grid, w, h, i + 1, next) ELSE next

buildNumbering(grid, w, h) ==
  LET N == w * h
      start == [ numbers      |-> [i \in 0 .. N - 1 |-> Null],
                 startsAcross |-> [i \in 0 .. N - 1 |-> FALSE],
                 startsDown   |-> [i \in 0 .. N - 1 |-> FALSE],
                 mapAcross    |-> [n \in {} |-> <<>>],
                 mapDown      |-> [n \in {} |-> <<>>],
                 curNum       |-> 1 ]
      done == numberFrom(grid, w, h, 0, start)
  IN  [ numbers |-> done.numbers, startsAcross |-> done.startsAcross,
        startsDown |-> done.startsDown, mapAcross |-> done.mapAcross,
        mapDown |-> done.mapDown ]

\* ------------------------------------------------------- JavaScript helpers
\* Map.prototype.get on a map of runs.  A miss (undefined) is the empty
\* sequence: every caller either writes `map.get(n) || []`, tests
\* `run && run.length`, or reads element 0 of a run that is there.
mapGet(map, n) == IF n \in DOMAIN map THEN map[n] ELSE <<>>

\* Array.prototype.indexOf (0-based, -1 when absent)
RECURSIVE indexFrom(_, _, _)
indexFrom(arr, x, k) ==
  IF k > Len(arr) THEN -1
  ELSE IF arr[k] = x THEN k - 1
  ELSE indexFrom(arr, x, k + 1)

indexOf(arr, x) == indexFrom(arr, x, 1)

\* arr[k] of a JavaScript array (0-based, undefined outside it)
at(arr, k) == IF k >= 0 /\ k < Len(arr) THEN arr[k + 1] ELSE Null

\* a % n of JavaScript: the sign of the dividend
jsMod(a, n) == IF a >= 0 THEN a % n ELSE 0 - ((0 - a) % n)

\* Array.from(map.keys()).sort((a,b)=>a-b)
RECURSIVE sortedKeys(_)
sortedKeys(S) ==
  IF S = {} THEN <<>>
  ELSE LET m == CHOOSE x \in S : \A y \in S : x <= y
       IN  <<m>> \o sortedKeys(S \ {m})

\* toUpperCase left out: the key is stored as typed
toUpperCaseKept(ch) == ch

\* String.prototype.toUpperCase on the keys of the model
toUpperCase(ch) ==
  CASE ch = "a" -> "A"
    [] ch = "b" -> "B"
    [] OTHER -> ch

\* /^[a-zA-Z]$/.test(key)
isLetter(key) == key \in {"a", "b", "A", "B"}

startsWithArrow(key) == key \in ArrowKeys

\* ------------------------------------------------------------------- runs
indexToRC(i, w) == [r |-> i \div w, c |-> i % w]

RECURSIVE walkLeft(_, _), walkUp(_, _)
walkLeft(r, cc) ==
  IF cc > 0 /\ flatGrid[r * W + (cc - 1)] # "#" THEN walkLeft(r, cc - 1) ELSE cc

walkUp(rr, c) ==
  IF rr > 0 /\ flatGrid[(rr - 1) * W + c] # "#" THEN walkUp(rr - 1, c) ELSE rr

\* the start taken to be the cell itself
startIndexOfSelf(i, d) == i

startIndexOf(i, d) ==
  IF i = Null THEN Null
  ELSE LET rc == indexToRC(i, W)
       IN  IF d = "across" THEN rc.r * W + walkLeft(rc.r, rc.c)
           ELSE walkUp(rc.r, rc.c) * W + rc.c

\* the full run that contains index i in direction d
runAt(i, d) ==
  LET start == startIndexOf(i, d)
  IN  IF start = Null THEN <<>>
      ELSE LET n == numbering.numbers[start]
           IN  IF n = Null THEN <<>>
               ELSE IF d = "across" THEN mapGet(numbering.mapAcross, n)
               ELSE mapGet(numbering.mapDown, n)

getCurrentRun == IF focus = Null THEN <<>> ELSE runAt(focus, dir)

\* currentClue: <<>> for null, else <<num, dir>> (the clue text, looked up by
\* num, adds nothing to which clue it is)
currentClue ==
  IF focus = Null THEN <<>>
  ELSE LET start == startIndexOf(focus, dir)
       IN  IF start = Null THEN <<>>
           ELSE LET n == numbering.numbers[start]
                IN  IF n = Null THEN <<>> ELSE <<n, dir>>

\* move(dirKey): the target of a one-cell move that stays in the row or the
\* column (defined by useCrossword, called by no handler)
move(dirKey) ==
  LET rc == indexToRC(focus, W)
      target == CASE dirKey = "left"  -> IF rc.c > 0 THEN focus - 1 ELSE focus
                  [] dirKey = "right" -> IF rc.c < W - 1 THEN focus + 1 ELSE focus
                  [] dirKey = "up"    -> IF rc.r > 0 THEN focus - W ELSE focus
                  [] dirKey = "down"  -> IF rc.r < H - 1 THEN focus + W ELSE focus
                  [] OTHER -> focus
  IN  IF flatGrid[target] = "#" THEN focus ELSE target

\* ------------------------------------------------------------- key handler
\* moveMap[key] || 0
moveDelta(key) ==
  CASE key = "ArrowLeft"  -> 0 - 1
    [] key = "ArrowRight" -> 1
    [] key = "ArrowUp"    -> 0 - W
    [] key = "ArrowDown"  -> W
    [] OTHER -> 0

\* the arrow step that does not look at the colour of the target
arrowTargetAnyCell(key, prevFocus) ==
  LET target == prevFocus + moveDelta(key)
  IN  IF target < 0 \/ target >= W * H THEN prevFocus ELSE target

\* the focus an arrow key returns
arrowTarget(key, prevFocus) ==
  LET target == prevFocus + moveDelta(key)
  IN  IF target < 0 \/ target >= W * H \/ flatGrid[target] = "#" THEN prevFocus
      ELSE target

\* the direction an arrow key sets
arrowDir(key) == IF key = "ArrowUp" \/ key = "ArrowDown" THEN "down" ELSE "across"

\* a toggle that keeps the direction
toggledKept(d) == d

\* toggleDirection: d => d === 'across' ? 'down' : 'across'
toggled(d) == IF d = "across" THEN "down" ELSE "across"

\* jumpToNextRun(forward): the cell it passes to setFocus, Null when it
\* returns without calling setFocus
jumpToNextRun(forward) ==
  LET map  == IF dir = "across" THEN numbering.mapAcross ELSE numbering.mapDown
      nums == sortedKeys(DOMAIN map)
  IN  IF Len(nums) = 0 THEN Null
      ELSE LET curNum == numbering.numbers[IF focus = Null THEN 0 ELSE focus]
           IN  IF curNum = Null THEN at(mapGet(map, at(nums, 0)), 0)
               ELSE LET idx == indexOf(nums, curNum)
                        nextIdx == jsMod(idx + (IF forward THEN 1 ELSE 0 - 1) + Len(nums), Len(nums))
                    IN  at(mapGet(map, at(nums, nextIdx)), 0)

\* run[Math.max(0, pos)]: the step back forgotten
backOfSamePos(run, prevFocus) ==
  LET pos == indexOf(run, prevFocus)
  IN  at(run, IF pos > 0 THEN pos ELSE 0)

\* Backspace/Delete: run[Math.max(0, pos - 1)]
backOf(run, prevFocus) ==
  LET pos == indexOf(run, prevFocus)
  IN  at(run, IF pos - 1 > 0 THEN pos - 1 ELSE 0)

\* Backspace/Delete: the setCells updater
deletedCells(prev, run, prevFocus) ==
  IF prev[prevFocus] # "" /\ prev[prevFocus] # "#"
    THEN [prev EXCEPT ![prevFocus] = ""]
    ELSE LET back == backOf(run, prevFocus)
         IN  IF back # Null THEN [prev EXCEPT ![back] = ""] ELSE prev

\* Backspace/Delete: `return back ?? prevFocus`
deletedFocus(run, prevFocus) ==
  LET back == backOf(run, prevFocus)
  IN  IF back # Null THEN back ELSE prevFocus

\* a letter: the setCells updater
typedCells(prev, prevFocus, key) ==
  IF prev[prevFocus] # "#" THEN [prev EXCEPT ![prevFocus] = toUpperCase(key)] ELSE prev

\* a letter: `return nextIdx ?? prevFocus`
typedFocus(run, prevFocus) ==
  LET pos == indexOf(run, prevFocus)
      nextIdx == at(run, pos + 1)
  IN  IF nextIdx # Null THEN nextIdx ELSE prevFocus

\* the test that takes every key for a handled one
handledAnyKey(key) == key = key

handled(key) ==
  \/ key = " " \/ key = "Tab" \/ key = "Enter"
  \/ key = "Backspace" \/ key = "Delete"
  \/ startsWithArrow(key)
  \/ isLetter(key)

\* the number of letters in the grid
letterCount(cs) == Cardinality({i \in DOMAIN cs : cs[i] # "" /\ cs[i] # "#"})

\* Typing is bounded by MaxLetters letters in the grid; the puzzles with a
\* solution are small enough to be filled without a bound.
LetterBound == IF noSol THEN MaxLetters ELSE W * H

\* What an operation leaves in `last`: its name and arguments, the letter
\* that was under the focus when it started, and whether it moved the focus.
record(op, key, shiftKey, idx, d) ==
  [ op |-> op, key |-> key, shift |-> shiftKey, idx |-> idx, d |-> d,
    ch |-> IF focus = Null THEN "" ELSE cells[focus],
    moved |-> focus' # focus ]

\* handleKey(e) with e.key = key and e.shiftKey = shiftKey.  It runs as one
\* setFocus(prevFocus => ...) update whose body calls setDir, setCells and
\* (through jumpToNextRun) setFocus.  For Tab and Enter the body queues
\* setFocus(target) and itself returns prevFocus: React applies the queued
\* value last when the updater runs during the render, and the returned
\* value last when it ran eagerly at dispatch, so either may be the new focus
\* (jumped says which).
handleKey(key, shiftKey, jumped) ==
  /\ mounted
  /\ key \notin {"Tab", "Enter"} => ~jumped
  /\ key # "Tab" => ~shiftKey
  /\ UNCHANGED <<router, puzzle, numbering, mounted>>
  /\ IF ~handled(key) \/ focus = Null
       THEN UNCHANGED <<cells, dir, focus>>
       ELSE LET prevFocus == focus
                run == runAt(prevFocus, dir)
            IN  CASE startsWithArrow(key) ->
                       /\ dir' = arrowDir(key)
                       /\ focus' = arrowTarget(key, prevFocus)
                       /\ UNCHANGED cells
                  [] key = " " ->
                       /\ dir' = toggled(dir)
                       /\ UNCHANGED <<cells, focus>>
                  [] key = "Tab" \/ key = "Enter" ->
                       LET target == jumpToNextRun(IF key = "Tab" THEN ~shiftKey ELSE TRUE)
                       IN  /\ focus' = IF jumped /\ target # Null THEN target ELSE prevFocus
                           /\ UNCHANGED <<cells, dir>>
                  [] key = "Backspace" \/ key = "Delete" ->
                       /\ cells' = deletedCells(cells, run, prevFocus)
                       /\ focus' = deletedFocus(run, prevFocus)
                       /\ UNCHANGED dir
                  [] OTHER ->
                       /\ cells' = typedCells(cells, prevFocus, key)
                       /\ letterCount(cells') <= LetterBound
                       /\ focus' = typedFocus(run, prevFocus)
                       /\ UNCHANGED dir
  /\ last' = record("handleKey", key, shiftKey, Null, "")

\* handlers.jumpToNextRun(forward), called on its own
jumpRun(forward) ==
  /\ mounted
  /\ LET target == jumpToNextRun(forward)
     IN  focus' = IF target # Null THEN target ELSE focus
  /\ UNCHANGED <<router, puzzle, numbering, cells, dir, mounted>>
  /\ last' = record("jumpToNextRun", "", ~forward, Null, "")

\* ------------------------------------------------------------ pointer input
\* the preference swapped: down before across
newDirDownFirst(a, d, cur) ==
  IF Len(d) # 0 THEN "down" ELSE IF Len(a) # 0 THEN "across" ELSE cur

\* selectCell: across when an across run exists, else down when a down run
\* exists, else the current direction
newDir(a, d, cur) ==
  IF Len(a) # 0 THEN "across" ELSE IF Len(d) # 0 THEN "down" ELSE cur

selectCell(i) ==
  /\ mounted
  /\ UNCHANGED <<router, puzzle, numbering, cells, mounted>>
  /\ IF flatGrid[i] = "#" THEN UNCHANGED <<dir, focus>>
     ELSE IF i = focus THEN dir' = toggled(dir) /\ UNCHANGED focus
     ELSE LET a == runAt(i, "across")
              d == runAt(i, "down")
          IN  dir' = newDir(a, d, dir) /\ focus' = i
  /\ last' = record("selectCell", "", FALSE, i, "")

clickClue(dirWanted, n) ==
  /\ mounted
  /\ dir' = dirWanted
  /\ LET map == IF dirWanted = "across" THEN numbering.mapAcross ELSE numbering.mapDown
         run == mapGet(map, n)
     IN  focus' = IF Len(run) # 0 THEN at(run, 0) ELSE focus
  /\ UNCHANGED <<router, puzzle, numbering, cells, mounted>>
  /\ last' = record("clickClue", "", FALSE, n, dirWanted)

\* The numbers a clue click is tried with: every number of the grid, and the
\* first number the grid does not use.
ClueNumbers ==
  1 .. Cardinality({i \in DOMAIN flatGrid : numbering.numbers[i] # Null}) + 1

\* the clearing that empties the black cells too
clearAllBlacks ==
  /\ mounted
  /\ cells' = [i \in DOMAIN cells |-> ""]
  /\ UNCHANGED <<router, puzzle, numbering, dir, focus, mounted>>
  /\ last' = record("clearAll", "", FALSE, Null, "")

clearAll ==
  /\ mounted
  /\ cells' = [i \in DOMAIN cells |-> IF flatGrid[i] = "#" THEN "#" ELSE ""]
  /\ UNCHANGED <<router, puzzle, numbering, dir, focus, mounted>>
  /\ last' = record("clearAll", "", FALSE, Null, "")

\* ------------------------------------------------------- check and reveal
\* prev.map((_, i) => i)
allIndexes == [k \in 1 .. W * H |-> k - 1]

\* the run of the focus when runOnly, else every index
scopeOf(runOnly) ==
  LET run == IF focus = Null THEN <<>> ELSE runAt(focus, dir)
  IN  IF runOnly THEN run ELSE allIndexes

\* the check that clears every letter of the scope, right or wrong
checkedCellsAll(prev, scope) ==
  [i \in DOMAIN prev |->
     IF /\ \E k \in 1 .. Len(scope) : scope[k] = i
        /\ flatGrid[i] # "#"
        /\ prev[i] # ""
       THEN "" ELSE prev[i]]

\* the loop of checkCurrent over the scope: a letter that differs from the
\* solution is cleared
checkedCells(prev, scope) ==
  [i \in DOMAIN prev |->
     IF /\ \E k \in 1 .. Len(scope) : scope[k] = i
        /\ flatGrid[i] # "#"
        /\ prev[i] # "" /\ prev[i] # flatSol[i]
       THEN "" ELSE prev[i]]

\* the reveal that fills the empty cells only
revealedCellsEmptyOnly(prev, scope) ==
  [i \in DOMAIN prev |->
     IF /\ \E k \in 1 .. Len(scope) : scope[k] = i
        /\ flatGrid[i] # "#"
        /\ prev[i] = ""
       THEN flatSol[i] ELSE prev[i]]

\* the loop of revealCurrent over the scope
revealedCells(prev, scope) ==
  [i \in DOMAIN prev |->
     IF (\E k \in 1 .. Len(scope) : scope[k] = i) /\ flatGrid[i] # "#"
       THEN flatSol[i] ELSE prev[i]]

\* checkCurrent(runOnly); the record keeps runOnly in its boolean field
checkCurrent(runOnly) ==
  /\ mounted
  /\ IF noSol THEN UNCHANGED cells
     ELSE LET scope == scopeOf(runOnly)
          IN  cells' = IF Len(scope) = 0 THEN cells ELSE checkedCells(cells, scope)
  /\ UNCHANGED <<router, puzzle, numbering, dir, focus, mounted>>
  /\ last' = record("checkCurrent", "", runOnly, Null, "")

\* revealCurrent(runOnly)
revealCurrent(runOnly) ==
  /\ mounted
  /\ IF noSol THEN UNCHANGED cells
     ELSE LET scope == scopeOf(runOnly)
          IN  cells' = IF Len(scope) = 0 THEN cells ELSE revealedCells(cells, scope)
  /\ UNCHANGED <<router, puzzle, numbering, dir, focus, mounted>>
  /\ last' = record("revealCurrent", "", runOnly, Null, "")

\* the completion test that takes any letter for the right one
isCompleteAnyLetter ==
  IF noSol THEN FALSE
  ELSE \A i \in 0 .. W * H - 1 : flatGrid[i] = "#" \/ cells[i] # ""

\* isComplete (useMemo over cells)
isComplete ==
  IF noSol THEN FALSE
  ELSE \A i \in 0 .. W * H - 1 : flatGrid[i] = "#" \/ cells[i] = flatSol[i]

\* ------------------------------------------------------------------- mount
\* the search that looks at one cell only
findOpenAt(grid, i) ==
  IF i \in DOMAIN grid /\ grid[i] # "#" THEN i ELSE -1

\* flatGrid.findIndex(ch => ch !== '#')
RECURSIVE findOpenFrom(_, _)
findOpenFrom(grid, i) ==
  IF i \notin DOMAIN grid THEN -1
  ELSE IF grid[i] # "#" THEN i
  ELSE findOpenFrom(grid, i + 1)

\* the effect of the first render: focus the first non-black cell
mountEffect ==
  /\ ~mounted
  /\ mounted' = TRUE
  /\ focus' = IF focus = Null
                THEN LET first == findOpenFrom(flatGrid, 0)
                     IN  IF first # -1 THEN first ELSE focus
                ELSE focus
  /\ UNCHANGED <<router, puzzle, numbering, cells, dir>>
  /\ last' = record("mount", "", FALSE, Null, "")

\* ------------------------------------------------------------ specification
\* The layouts of at most MaxCells cells: "_" is an open cell, "#" a black one.
Init ==
  /\ \E w \in 1 .. MaxCells, h \in 1 .. MaxCells :
       /\ w * h <= MaxCells
       /\ \E g \in [0 .. w * h - 1 -> {"#", "_"}] :
            puzzle = [width |-> w, height |-> h, grid |-> g]
  /\ numbering = buildNumbering(flatGrid, W, H)
  /\ cells = [i \in DOMAIN flatGrid |-> IF flatGrid[i] = "#" THEN "#" ELSE ""]
  /\ dir = "across"
  /\ focus = Null
  /\ mounted = FALSE
  /\ router = Direct
  /\ last = [ op |-> "init", key |-> "", shift |-> FALSE, idx |-> Null, d |-> "",
              ch |-> "", moved |-> FALSE ]

Next ==
  \/ mountEffect
  \/ \E key \in Keys, shiftKey \in BOOLEAN, jumped \in BOOLEAN : handleKey(key, shiftKey, jumped)
  \/ \E forward \in BOOLEAN : jumpRun(forward)
  \/ \E i \in DOMAIN flatGrid : selectCell(i)
  \/ \E d \in Dirs, n \in ClueNumbers : clickClue(d, n)
  \/ clearAll

Spec == Init /\ [][Next]_vars

\* ------------------------------------------------------- the sample puzzle
\* SAMPLE_PUZZLE, the puzzle useCrossword plays when it is given none.
SampleWidth == 9
SampleHeight == 9
SampleRows ==
  << <<"A", "P", "P", "L", "E", "#", "#", "#", "#">>,
     <<"P", "#", "A", "#", "L", "#", "E", "#", "S">>,
     <<"P", "U", "M", "P", "K", "I", "N", "#", "T">>,
     <<"E", "#", "I", "#", "O", "#", "A", "#", "T">>,
     <<"#", "#", "#", "#", "#", "L", "E", "A", "F">>,
     <<"T", "#", "R", "#", "E", "#", "E", "#", "S">>,
     <<"T", "E", "A", "#", "#", "#", "#", "#", "R">>,
     <<"A", "#", "U", "#", "T", "#", "U", "#", "M">>,
     <<"R", "T", "#", "#", "#", "H", "A", "Y", "#">> >>

\* puzzle.grid.join("").split("")
SampleGrid ==
  [i \in 0 .. SampleWidth * SampleHeight - 1 |->
     SampleRows[(i \div SampleWidth) + 1][(i % SampleWidth) + 1]]

InitSample ==
  /\ puzzle = [width |-> SampleWidth, height |-> SampleHeight, grid |-> SampleGrid]
  /\ numbering = buildNumbering(flatGrid, W, H)
  /\ cells = [i \in DOMAIN flatGrid |-> IF flatGrid[i] = "#" THEN "#" ELSE ""]
  /\ dir = "across"
  /\ focus = Null
  /\ mounted = FALSE
  /\ router = Direct
  /\ last = [ op |-> "init", key |-> "", shift |-> FALSE, idx |-> Null, d |-> "",
              ch |-> "", moved |-> FALSE ]

\* The keys that never change a letter, and the sample puzzle under the
\* operations that only move the focus or turn the direction.
NavKeys == Keys \ (LetterKeys \cup {"Backspace", "Delete"})

NextNav ==
  \/ mountEffect
  \/ \E key \in NavKeys, shiftKey \in BOOLEAN, jumped \in BOOLEAN : handleKey(key, shiftKey, jumped)
  \/ \E forward \in BOOLEAN : jumpRun(forward)
  \/ \E i \in DOMAIN flatGrid : selectCell(i)
  \/ \E d \in Dirs, n \in ClueNumbers : clickClue(d, n)

SpecSample == InitSample /\ [][NextNav]_vars

\* ------------------------------------------------- puzzles with a solution
\* The layouts of at most MaxSolveCells cells, each without a solution and
\* with every solution over the letters A and B ("#" on the black cells).
InitSolve ==
  /\ \E w \in 1 .. MaxSolveCells, h \in 1 .. MaxSolveCells :
       /\ w * h <= MaxSolveCells
       /\ \E g \in [0 .. w * h - 1 -> {"#", "_"}] :
            \/ puzzle = [width |-> w, height |-> h, grid |-> g]
            \/ \E sol \in [0 .. w * h - 1 -> {"#", "A", "B"}] :
                 /\ \A i \in 0 .. w * h - 1 : (sol[i] = "#") <=> (g[i] = "#")
                 /\ puzzle = [width |-> w, height |-> h, grid |-> g, solution |-> sol]
  /\ numbering = buildNumbering(flatGrid, W, H)
  /\ cells = [i \in DOMAIN flatGrid |-> IF flatGrid[i] = "#" THEN "#" ELSE ""]
  /\ dir = "across"
  /\ focus = Null
  /\ mounted = FALSE
  /\ router = Direct
  /\ last = [ op |-> "init", key |-> "", shift |-> FALSE, idx |-> Null, d |-> "",
              ch |-> "", moved |-> FALSE ]

NextSolve ==
  \/ mountEffect
  \/ \E key \in LetterKeys : handleKey(key, FALSE, FALSE)
  \/ \E i \in DOMAIN flatGrid : selectCell(i)
  \/ \E runOnly \in BOOLEAN : checkCurrent(runOnly)
  \/ \E runOnly \in BOOLEAN : revealCurrent(runOnly)
  \/ clearAll

SpecSolve == InitSolve /\ [][NextSolve]_vars

\* ---------------------------------------------------------------- layouts
\* Every layout of at most MaxLayoutCells cells, with the operations that
\* read its numbering: the mount, cell clicks (runAt in both directions) and
\* clue clicks (the maps).
InitLayout ==
  /\ \E w \in 1 .. MaxLayoutCells, h \in 1 .. MaxLayoutCells :
       /\ w * h <= MaxLayoutCells
       /\ \E g \in [0 .. w * h - 1 -> {"#", "_"}] :
            puzzle = [width |-> w, height |-> h, grid |-> g]
  /\ numbering = buildNumbering(flatGrid, W, H)
  /\ cells = [i \in DOMAIN flatGrid |-> IF flatGrid[i] = "#" THEN "#" ELSE ""]
  /\ dir = "across"
  /\ focus = Null
  /\ mounted = FALSE
  /\ router = Direct
  /\ last = [ op |-> "init", key |-> "", shift |-> FALSE, idx |-> Null, d |-> "",
              ch |-> "", moved |-> FALSE ]

NextLayout ==
  \/ mountEffect
  \/ \E i \in DOMAIN flatGrid : selectCell(i)
  \/ \E d \in Dirs, n \in ClueNumbers : clickClue(d, n)

SpecLayout == InitLayout /\ [][NextLayout]_vars

\* -------------------------------------------------------------------- play
\* Every operation of the engine on the layouts of at most MaxPlayCells
\* cells, given without a solution or with the solution that alternates A
\* and B over the cells.
solutionOf(g) ==
  [i \in DOMAIN g |-> IF g[i] = "#" THEN "#" ELSE IF i % 2 = 0 THEN "A" ELSE "B"]

InitPlay ==
  /\ \E w \in 1 .. MaxPlayCells, h \in 1 .. MaxPlayCells :
       /\ w * h <= MaxPlayCells
       /\ \E g \in [0 .. w * h - 1 -> {"#", "_"}] :
            \/ puzzle = [width |-> w, height |-> h, grid |-> g]
            \/ puzzle = [width |-> w, height |-> h, grid |-> g, solution |-> solutionOf(g)]
  /\ numbering = buildNumbering(flatGrid, W, H)
  /\ cells = [i \in DOMAIN flatGrid |-> IF flatGrid[i] = "#" THEN "#" ELSE ""]
  /\ dir = "across"
  /\ focus = Null
  /\ mounted = FALSE
  /\ router = Direct
  /\ last = [ op |-> "init", key |-> "", shift |-> FALSE, idx |-> Null, d |-> "",
              ch |-> "", moved |-> FALSE ]

NextPlay ==
  \/ mountEffect
  \/ \E key \in Keys, shiftKey \in BOOLEAN, jumped \in BOOLEAN : handleKey(key, shiftKey, jumped)
  \/ \E forward \in BOOLEAN : jumpRun(forward)
  \/ \E i \in DOMAIN flatGrid : selectCell(i)
  \/ \E d \in Dirs, n \in ClueNumbers : clickClue(d, n)
  \/ \E runOnly \in BOOLEAN : checkCurrent(runOnly)
  \/ \E runOnly \in BOOLEAN : revealCurrent(runOnly)
  \/ clearAll

SpecPlay == InitPlay /\ [][NextPlay]_vars

\* ------------------------------------------------------------- puzzle file
\* A file is a sequence of bytes (0 .. 255); JavaScript indexes it from 0.
OffWidth == 44       \* 0x2C
OffHeight == 45      \* 0x2D
OffClueCount == 46   \* 0x2E
HeaderSize == 52     \* 0x34

\* String.fromCharCode and the text decoders on the bytes the model writes
\* (all ASCII, which UTF-8 decodes without a replacement character)
charOf ==
  (35 :> "#") @@ (45 :> "-") @@ (46 :> ".") @@ (65 :> "A") @@ (66 :> "B") @@
  (84 :> "T") @@ (97 :> "a") @@ (98 :> "b") @@ (99 :> "c") @@ (100 :> "d")
fromCharCode(b) == charOf[b]

\* bytes[k]
byteAt(bytes, k) == IF k >= 0 /\ k < Len(bytes) THEN bytes[k + 1] ELSE Null

\* bytes.slice(a, b) and bytes.subarray(a, b): clamped to the buffer
sliceBytes(bytes, a, b) ==
  LET lo == IF a < Len(bytes) THEN a ELSE Len(bytes)
      hi == IF b < Len(bytes) THEN b ELSE Len(bytes)
  IN  IF hi <= lo THEN <<>> ELSE [k \in 1 .. hi - lo |-> bytes[lo + k]]

\* the `while (off < bytes.length && bytes[off] !== 0) off++` of readCString
RECURSIVE scanNul(_, _)
scanNul(bytes, off) ==
  IF off < Len(bytes) /\ bytes[off + 1] # 0 THEN scanNul(bytes, off + 1) ELSE off

\* readCString at offset off: the text (a sequence of characters) and the
\* offset after the NUL
readCString(bytes, off) ==
  LET end == scanNul(bytes, off)
      view == sliceBytes(bytes, off, end)
  IN  [ text |-> [k \in 1 .. Len(view) |-> fromCharCode(view[k])], off |-> end + 1 ]

\* `for (i < clueCount) cluesRaw.push(readCString())`, n fields still to read
RECURSIVE readClues(_, _, _)
readClues(bytes, off, n) ==
  IF n = 0 THEN [ list |-> <<>>, off |-> off ]
  ELSE LET one == readCString(bytes, off)
           rest == readClues(bytes, one.off, n - 1)
       IN  [ list |-> <<one.text>> \o rest.list, off |-> rest.off ]

\* (ch === '.' || ch === '#') ? '#' : ch
normalize(ch) == IF ch = "." \/ ch = "#" THEN "#" ELSE ch

\* a JavaScript array as the function from its indices 0 .. length - 1
zeroBased(arr) == [i \in 0 .. Len(arr) - 1 |-> arr[i + 1]]

\* the scan in which every across start is taken before any down start
RECURSIVE orderAcrossFirst(_, _, _, _, _)
orderAcrossFirst(grid, w, h, i, nums) ==
  LET N == w * h
      k == IF i < N THEN i ELSE i - N
      want == IF i < N THEN "across" ELSE "down"
      starts == IF i < N THEN startA(grid, w, k) ELSE startD(grid, w, h, k)
  IN  IF i >= 2 * N THEN <<>>
      ELSE (IF ~isBlack(grid, k) /\ starts THEN << [dir |-> want, num |-> nums[k]] >> ELSE <<>>)
             \o orderAcrossFirst(grid, w, h, i + 1, nums)

\* the row-major scan that pushes, for cell i, its across entry and then its
\* down entry
RECURSIVE orderFrom(_, _, _, _, _)
orderFrom(grid, w, h, i, nums) ==
  IF i >= w * h THEN <<>>
  ELSE (IF isBlack(grid, i) THEN <<>>
        ELSE (IF startA(grid, w, i) THEN << [dir |-> "across", num |-> nums[i]] >> ELSE <<>>)
               \o (IF startD(grid, w, h, i) THEN << [dir |-> "down", num |-> nums[i]] >> ELSE <<>>))
         \o orderFrom(grid, w, h, i + 1, nums)

\* `cluesRaw[idx++] || ''` for the entries of direction d, from entry k on
RECURSIVE cluesOf(_, _, _, _)
cluesOf(order, cluesRaw, d, k) ==
  IF k > Len(order) THEN <<>>
  ELSE (IF order[k].dir = d
          THEN << [ num |-> order[k].num,
                    text |-> IF k <= Len(cluesRaw) THEN cluesRaw[k] ELSE <<>> ] >>
          ELSE <<>>)
         \o cluesOf(order, cluesRaw, d, k + 1)

\* asRows: H rows, row r the slice r*W .. (r+1)*W of the array
asRows(arr, w, h) ==
  [r \in 1 .. h |-> sliceBytes(arr, (r - 1) * w, r * w)]

\* rows.join("").split("") of useCrossword, from row r on
RECURSIVE joinRows(_, _)
joinRows(rows, r) ==
  IF r > Len(rows) THEN <<>> ELSE rows[r] \o joinRows(rows, r + 1)

\* puzToPuzzle(arrayBuffer).  dv.getUint16(0x2E, true) throws a RangeError on
\* a buffer that ends before offset 0x30; nothing else in it throws.
puzToPuzzle(bytes) ==
  IF OffClueCount + 2 > Len(bytes) THEN [ ok |-> FALSE, error |-> "RangeError" ]
  ELSE
    LET w == byteAt(bytes, OffWidth)
        h == byteAt(bytes, OffHeight)
        clueCount == byteAt(bytes, OffClueCount) + 256 * byteAt(bytes, OffClueCount + 1)
        N == w * h
        solBytes == sliceBytes(bytes, HeaderSize, HeaderSize + N)
        sol == [k \in 1 .. Len(solBytes) |-> fromCharCode(solBytes[k])]
        title == readCString(bytes, HeaderSize + 2 * N)
        author == readCString(bytes, title.off)
        copyright == readCString(bytes, author.off)
        raw == readClues(bytes, copyright.off, clueCount)
        notes == IF raw.off < Len(bytes) THEN readCString(bytes, raw.off).text ELSE <<>>
        grid == [k \in 1 .. Len(sol) |-> normalize(sol[k])]
        nums == buildNumbering(zeroBased(grid), w, h).numbers
        order == orderFrom(zeroBased(grid), w, h, 0, nums)
    IN  [ ok |-> TRUE,
          json |-> [ title |-> IF Len(title.text) = 0 THEN <<"Untitled">> ELSE title.text,
                     author |-> IF Len(author.text) = 0 THEN <<"Unknown">> ELSE author.text,
                     width |-> w, height |-> h,
                     grid |-> asRows(grid, w, h),
                     solution |-> asRows(grid, w, h),
                     clues |-> [ across |-> cluesOf(order, raw.list, "across", 1),
                                 down |-> cluesOf(order, raw.list, "down", 1) ],
                     notes |-> notes ] ]

\* ------------------------------------------------------------------ router
\* The files of the model.  A file of width w and height h with the solution
\* grid sol ("." black, "A" a letter), an untouched state grid, the title
\* "T", no author, no copyright, and n clue fields "a", "b", "c", "d", "a", ...
codeOf(ch) == CHOOSE b \in DOMAIN charOf : charOf[b] = ch

fieldText(k) == << <<"a">>, <<"b">>, <<"c">>, <<"d">> >>[((k - 1) % 4) + 1]

RECURSIVE fieldBytes(_, _)
fieldBytes(k, n) ==
  IF k > n THEN <<>> ELSE <<codeOf(fieldText(k)[1]), 0>> \o fieldBytes(k + 1, n)

fileOf(w, h, sol, n) ==
  [k \in 1 .. HeaderSize |->
     CASE k - 1 = OffWidth -> w
       [] k - 1 = OffHeight -> h
       [] k - 1 = OffClueCount -> n % 256
       [] k - 1 = OffClueCount + 1 -> n \div 256
       [] OTHER -> 0]
    \o [k \in 1 .. w * h |-> codeOf(sol[k])]
    \o [k \in 1 .. w * h |-> codeOf("-")]
    \o <<codeOf("T"), 0, 0, 0>>
    \o fieldBytes(1, n)

\* the lengths a file of width w and height h is cut to
cutLengths(w, h) ==
  {0, OffClueCount + 1, OffClueCount + 2, HeaderSize, HeaderSize + w * h,
   HeaderSize + 2 * w * h - 1}

\* what AppRouter returns: the index, the loading line, the error line,
\* nothing, or the shell; this one shows the shell as soon as there is a puzzle
viewPuzzleFirst ==
  IF ~router.p THEN "index"
  ELSE IF router.hasPuzzle THEN "shell"
  ELSE IF router.loading THEN "loading"
  ELSE IF router.error # "" THEN "error"
  ELSE "null"

\* what AppRouter returns
view ==
  IF ~router.p THEN "index"
  ELSE IF router.loading THEN "loading"
  ELSE IF router.error # "" THEN "error"
  ELSE IF ~router.hasPuzzle THEN "null"
  ELSE "shell"

\* the effect of AppRouter: with ?p= it starts the load
routerEffect ==
  /\ router.phase = "start"
  /\ router' = IF ~router.p THEN [router EXCEPT !.phase = "index"]
               ELSE [router EXCEPT !.phase = "fetching", !.loading = TRUE]
  /\ UNCHANGED <<puzzle, numbering, cells, dir, focus, mounted, last>>

\* fetch(p) settles and the first `then` runs: a response that is ok gives
\* its buffer, one that is not ok makes the callback throw, and a rejected
\* fetch skips the callback
fetchSettles(outcome) ==
  /\ router.phase = "fetching"
  /\ router' = CASE outcome = "ok" -> [router EXCEPT !.phase = "buffer"]
                 [] outcome = "status" ->
                      [router EXCEPT !.phase = "rejected", !.reason = "Error: HTTP status"]
                 [] OTHER ->
                      [router EXCEPT !.phase = "rejected", !.reason = "TypeError: fetch failed"]
  /\ UNCHANGED <<puzzle, numbering, cells, dir, focus, mounted, last>>

\* .then(buf => puzToPuzzle(buf))
decodeStep ==
  /\ router.phase = "buffer"
  /\ LET res == puzToPuzzle(router.buf)
     IN  router' = IF res.ok
                     THEN [router EXCEPT !.phase = "decoded", !.decoded = "returned",
                                         !.result = res.json]
                     ELSE [router EXCEPT !.phase = "rejected", !.decoded = "threw",
                                         !.reason = res.error]
  /\ UNCHANGED <<puzzle, numbering, cells, dir, focus, mounted, last>>

\* .then(json => setPuzzle(json))
setPuzzleStep ==
  /\ router.phase = "decoded"
  /\ router' = [router EXCEPT !.phase = "fulfilled", !.hasPuzzle = TRUE, !.json = router.result]
  /\ UNCHANGED <<puzzle, numbering, cells, dir, focus, mounted, last>>

\* .catch(e => setError(String(e)))
catchStep ==
  /\ router.phase = "rejected"
  /\ router' = [router EXCEPT !.phase = "fulfilled", !.error = router.reason]
  /\ UNCHANGED <<puzzle, numbering, cells, dir, focus, mounted, last>>

\* .finally(() => setLoading(false))
finallyStep ==
  /\ router.phase = "fulfilled"
  /\ router' = [router EXCEPT !.phase = "settled", !.loading = FALSE]
  /\ UNCHANGED <<puzzle, numbering, cells, dir, focus, mounted, last>>

\* AppRouter returns <CrosswordShell puzzle={puzzle} />: useCrossword starts
\* on the loaded puzzle
renderShell ==
  /\ view = "shell" /\ ~router.engine
  /\ router' = [router EXCEPT !.engine = TRUE]
  /\ puzzle' = [ width |-> router.json.width, height |-> router.json.height,
                 grid |-> zeroBased(joinRows(router.json.grid, 1)),
                 solution |-> zeroBased(joinRows(router.json.solution, 1)),
                 clues |-> router.json.clues ]
  /\ numbering' = buildNumbering(puzzle'.grid, puzzle'.width, puzzle'.height)
  /\ cells' = [i \in DOMAIN puzzle'.grid |-> IF puzzle'.grid[i] = "#" THEN "#" ELSE ""]
  /\ dir' = "across"
  /\ focus' = Null
  /\ mounted' = FALSE
  /\ UNCHANGED last

\* The page is opened with or without ?p=; the file behind p is any file of
\* the model, whole or cut short.
InitLoad ==
  /\ \E w \in 1 .. MaxFileSide, h \in 1 .. MaxFileSide, n \in 0 .. MaxClueFields, p \in BOOLEAN :
       \E sol \in [1 .. w * h -> {".", "A"}] :
         LET file == fileOf(w, h, sol, n)
         IN  \E len \in cutLengths(w, h) \cup {Len(file)} :
               router = [ phase |-> "start", p |-> p, loading |-> FALSE, error |-> "",
                          hasPuzzle |-> FALSE, json |-> <<>>, engine |-> FALSE,
                          buf |-> SubSeq(file, 1, len), fields |-> n,
                          decoded |-> "", result |-> <<>>, reason |-> "" ]
  /\ puzzle = [width |-> 0, height |-> 0, grid |-> <<>>]
  /\ numbering = buildNumbering(<<>>, 0, 0)
  /\ cells = <<>>
  /\ dir = "across"
  /\ focus = Null
  /\ mounted = FALSE
  /\ last = [ op |-> "init", key |-> "", shift |-> FALSE, idx |-> Null, d |-> "",
              ch |-> "", moved |-> FALSE ]

NextLoad ==
  \/ routerEffect
  \/ \E outcome \in {"ok", "status", "failed"} : fetchSettles(outcome)
  \/ decodeStep
  \/ setPuzzleStep
  \/ catchStep
  \/ finallyStep
  \/ renderShell
  \/ (router.engine /\ mountEffect)

SpecLoad == InitLoad /\ [][NextLoad]_vars

\* ------------------------------------------------------------------ claims
\* The claims are about one operation each.  A step of the operation is a step
\* that leaves its record in last'; the unprimed variables are the state the
\* operation starts from.  The grid geometry below is stated from the layout
\* alone, not through runAt.

\* The cell one step from cell i to the "left", "right", "up" or "down", when
\* that cell is in the grid and open; Null otherwise.
openNeighbour(i, side) ==
  LET r == i \div W
      c == i % W
      n == CASE side = "left"  -> IF c > 0 THEN i - 1 ELSE Null
             [] side = "right" -> IF c < W - 1 THEN i + 1 ELSE Null
             [] side = "up"    -> IF r > 0 THEN i - W ELSE Null
             [] OTHER          -> IF r < H - 1 THEN i + W ELSE Null
  IN  IF n # Null /\ flatGrid[n] # "#" THEN n ELSE Null

sideOfKey(key) ==
  CASE key = "ArrowLeft"  -> "left"
    [] key = "ArrowRight" -> "right"
    [] key = "ArrowUp"    -> "up"
    [] OTHER              -> "down"

\* the cell before and the cell after cell i in the run through i along d
prevInRun(i, d) == openNeighbour(i, IF d = "across" THEN "left" ELSE "up")
nextInRun(i, d) == openNeighbour(i, IF d = "across" THEN "right" ELSE "down")

\* a run (two or more open cells in line) passes through cell i along d
hasRunAt(i, d) == prevInRun(i, d) # Null \/ nextInRun(i, d) # Null

\* the runs of direction d by number, and the number of the run through i
runMap(d) == IF d = "across" THEN numbering.mapAcross ELSE numbering.mapDown
runNumbers(d) == DOMAIN runMap(d)
cellsOf(run) == {run[k] : k \in 1 .. Len(run)}
runNumberOf(i, d) ==
  IF \E n \in runNumbers(d) : i \in cellsOf(runMap(d)[n])
    THEN CHOOSE n \in runNumbers(d) : i \in cellsOf(runMap(d)[n])
    ELSE Null
firstCell(n, d) == runMap(d)[n][1]
least(S) == CHOOSE x \in S : \A y \in S : x <= y
greatest(S) == CHOOSE x \in S : \A y \in S : x >= y

\* the letter a letter key stands for
letterOf == [k \in LetterKeys |-> IF k = "a" THEN "A" ELSE "B"]

keyStep(keys) == last'.op = "handleKey" /\ last'.key \in keys /\ focus # Null
jumpStep == last'.op = "jumpToNextRun" /\ focus # Null
jumpForward == ~last'.shift

\* C1: an arrow key moves the focus to the neighbouring cell on the key's side
\* when that cell is in the grid and open, and leaves it where it is otherwise;
\* the focus never leaves the row on ArrowLeft/ArrowRight.
C1_ArrowMovesAlongAxis ==
  [][ keyStep(ArrowKeys) =>
        LET nb == openNeighbour(focus, sideOfKey(last'.key))
        IN  focus' = IF nb # Null THEN nb ELSE focus ]_vars

\* C2: Backspace/Delete on a focused cell that holds a letter clears that cell,
\* changes no other cell and leaves the focus where it is.
C2_DeleteLetterKeepsFocus ==
  [][ (keyStep({"Backspace", "Delete"}) /\ cells[focus] # "") =>
        /\ cells' = [cells EXCEPT ![focus] = ""]
        /\ focus' = focus ]_vars

\* C3: Backspace/Delete on a focused cell that is empty clears the previous
\* cell of the run through the focus along the direction and moves the focus
\* there; with no previous cell (the focus starts its run) cells, focus and
\* direction stay as they are.
C3_DeleteOnEmptyStepsBack ==
  [][ (keyStep({"Backspace", "Delete"}) /\ cells[focus] = "") =>
        LET p == prevInRun(focus, dir)
        IN  /\ dir' = dir
            /\ IF p # Null
                 THEN focus' = p /\ cells' = [cells EXCEPT ![p] = ""]
                 ELSE focus' = focus /\ cells' = cells ]_vars

\* Backspace or Delete was pressed on an empty cell and stepped back.
C3_Witness ==
  /\ last.op = "handleKey" /\ last.key \in {"Backspace", "Delete"}
  /\ last.ch = "" /\ last.moved
  /\ nextInRun(focus, dir) # Null

\* C4: a letter key stores the upper-case letter in the focused cell and in no
\* other, moves the focus to the next cell of the run through it along the
\* direction when there is one, leaves it otherwise, and keeps the direction.
C4_LetterStoredThenAdvance ==
  [][ keyStep(LetterKeys) =>
        LET nx == nextInRun(focus, dir)
        IN  /\ cells' = [cells EXCEPT ![focus] = letterOf[last'.key]]
            /\ focus' = IF nx # Null THEN nx ELSE focus
            /\ dir' = dir ]_vars

\* The lower-case key was typed: its upper-case letter is in the cell the
\* focus advanced from.
C4_Witness ==
  /\ last.op = "handleKey" /\ last.key = "a" /\ last.moved
  /\ prevInRun(focus, dir) # Null
  /\ cells[prevInRun(focus, dir)] = "A"

\* C5: from a focus anywhere in a run of the direction, a forward jump goes to
\* the first cell of the run with the next higher number, a backward jump to
\* that of the run with the next lower number.
C5_JumpToNeighbourRun ==
  [][ (jumpStep /\ runNumberOf(focus, dir) # Null) =>
        LET n == runNumberOf(focus, dir)
            higher == {m \in runNumbers(dir) : m > n}
            lower  == {m \in runNumbers(dir) : m < n}
        IN  /\ (jumpForward /\ higher # {}) => focus' = firstCell(least(higher), dir)
            /\ (~jumpForward /\ lower # {}) => focus' = firstCell(greatest(lower), dir) ]_vars

\* C6: the jump wraps: forward from the run with the highest number to the
\* first cell of the run with the lowest, backward from the lowest to the
\* first cell of the highest.
C6_JumpWrapsAround ==
  [][ (jumpStep /\ runNumberOf(focus, dir) # Null) =>
        LET n == runNumberOf(focus, dir)
        IN  /\ (jumpForward /\ n = greatest(runNumbers(dir)))
                 => focus' = firstCell(least(runNumbers(dir)), dir)
            /\ (~jumpForward /\ n = least(runNumbers(dir)))
                 => focus' = firstCell(greatest(runNumbers(dir)), dir) ]_vars

\* C7: from a focused cell in no run of the direction, a jump, forward or
\* backward, goes to the first cell of the lowest-numbered run of the direction.
C7_JumpFromOutsideRun ==
  [][ (jumpStep /\ runNumberOf(focus, dir) = Null /\ runNumbers(dir) # {}) =>
        focus' = firstCell(least(runNumbers(dir)), dir) ]_vars

\* C8: a click on the focused cell turns the direction and changes neither
\* the focus nor the letters.
C8_ClickFocusedCellToggles ==
  [][ (last'.op = "selectCell" /\ last'.idx = focus) =>
        /\ dir' \in Dirs /\ dir' # dir
        /\ focus' = focus
        /\ cells' = cells ]_vars

\* The focused cell was clicked with a letter in the grid, and the direction
\* is now down.
C8_Witness ==
  /\ last.op = "selectCell" /\ last.idx = focus /\ ~last.moved
  /\ dir = "down"
  /\ letterCount(cells) > 0

\* C9: a click on an open cell other than the focus focuses it and sets the
\* direction to across when an across run passes through it, else to down when
\* a down run does, else leaves the direction; a click on a black cell changes
\* nothing.
C9_ClickCellSelects ==
  [][ (last'.op = "selectCell" /\ last'.idx # focus) =>
        LET i == last'.idx
        IN  IF flatGrid[i] = "#"
              THEN focus' = focus /\ dir' = dir /\ cells' = cells
              ELSE /\ focus' = i
                   /\ dir' = IF hasRunAt(i, "across") THEN "across"
                             ELSE IF hasRunAt(i, "down") THEN "down"
                             ELSE dir ]_vars

\* A click moved the focus to a cell that only a down run passes through.
C9_Witness ==
  /\ last.op = "selectCell" /\ last.moved /\ last.idx = focus
  /\ ~hasRunAt(focus, "across") /\ hasRunAt(focus, "down")
  /\ dir = "down"

\* C10: a clue click sets the direction and focuses the first cell of the run
\* with that number in that direction; when there is no such run it changes
\* neither focus nor direction.
C10_ClickClueOrNothing ==
  [][ last'.op = "clickClue" =>
        LET n == last'.idx
            d == last'.d
        IN  IF n \in runNumbers(d)
              THEN dir' = d /\ focus' = firstCell(n, d)
              ELSE focus' = focus /\ dir' = dir ]_vars

\* C11: currentClue is unset when the focus is unset or no run of the direction
\* passes through the focused cell, and otherwise is the number of the start
\* cell of that run together with the direction.
C11_CurrentClueOfRun ==
  currentClue = IF focus = Null \/ ~hasRunAt(focus, dir)
                  THEN <<>>
                  ELSE <<runNumberOf(focus, dir), dir>>

\* the cells from i to j along d, both included, when they are in one line
between(i, j, d) ==
  LET lo == IF i <= j THEN i ELSE j
      hi == IF i <= j THEN j ELSE i
  IN  IF d = "across" THEN lo .. hi ELSE {k \in lo .. hi : k % W = i % W}
sameLine(i, j, d) == IF d = "across" THEN i \div W = j \div W ELSE i % W = j % W

\* the cells of the run that passes through cell i along d, by the layout
runThrough(i, d) ==
  IF i = Null THEN {}
  ELSE IF flatGrid[i] = "#" \/ ~hasRunAt(i, d) THEN {}
  ELSE {j \in DOMAIN flatGrid :
          sameLine(i, j, d) /\ \A k \in between(i, j, d) : flatGrid[k] # "#"}

openCells == {i \in DOMAIN flatGrid : flatGrid[i] # "#"}
freshState == last.op \in {"init", "mount"}

\* C12: with a solution, a check clears the open cells of its scope (the run
\* of the focus, or the whole grid) that hold a letter other than the
\* solution's and changes no other cell; without a solution it changes nothing.
C12_CheckClearsWrongLetters ==
  [][ last'.op = "checkCurrent" =>
        LET scope == IF last'.shift THEN runThrough(focus, dir) ELSE DOMAIN flatGrid
        IN  IF noSol THEN cells' = cells
            ELSE cells' = [i \in DOMAIN cells |->
                             IF /\ i \in scope /\ flatGrid[i] # "#"
                                /\ cells[i] # "" /\ cells[i] # flatSol[i]
                               THEN "" ELSE cells[i]] ]_vars

\* A check of the run cleared the wrong letter under the focus and kept a
\* right letter of the same run.
C12_Witness ==
  /\ last.op = "checkCurrent" /\ last.shift /\ ~noSol
  /\ last.ch # "" /\ cells[focus] = ""
  /\ \E j \in runThrough(focus, dir) : cells[j] = flatSol[j]

\* C13: with a solution, a reveal of the whole grid puts the solution letter
\* in every open cell, and isComplete is true right after it; a reveal of the
\* run puts the solution letters in the cells of the run of the focus and
\* changes no other cell.
C13_RevealFillsScope ==
  [][ (last'.op = "revealCurrent" /\ ~noSol) =>
        IF last'.shift
          THEN cells' = [i \in DOMAIN cells |->
                           IF i \in runThrough(focus, dir) THEN flatSol[i] ELSE cells[i]]
          ELSE /\ \A i \in DOMAIN cells :
                    cells'[i] = IF flatGrid[i] = "#" THEN cells[i] ELSE flatSol[i]
               /\ isComplete' ]_vars

\* A reveal of the whole grid wrote over a wrong letter under the focus.
C13_Witness ==
  /\ last.op = "revealCurrent" /\ ~last.shift /\ ~noSol
  /\ last.ch # "" /\ last.ch # flatSol[focus]
  /\ isComplete /\ Cardinality(openCells) > 1

\* C14: isComplete is true exactly when the puzzle has a solution and every
\* open cell holds the solution letter of its position.
C14_CompleteIffAllMatch ==
  isComplete <=> (~noSol /\ \A i \in openCells : cells[i] = puzzle.solution[i])

\* The last letter of a grid of several open cells was typed and completed it.
C14_Witness ==
  /\ last.op = "handleKey" /\ last.key \in LetterKeys
  /\ isComplete /\ Cardinality(openCells) > 1

\* C15: in the freshly loaded state of a puzzle with a solution isComplete is
\* false, whatever the layout.
C15_FreshNotComplete ==
  (freshState /\ ~noSol) => ~isComplete

\* C16: after loading and before any input every open cell is empty, every
\* black cell holds "#", the direction is across, and the mount effect makes
\* the focus the first open cell in row-major order, or leaves it unset when
\* there is none.
C16_LoadedState ==
  freshState =>
    /\ \A i \in DOMAIN flatGrid : cells[i] = IF flatGrid[i] = "#" THEN "#" ELSE ""
    /\ dir = "across"
    /\ focus = IF last.op = "mount" /\ openCells # {} THEN least(openCells) ELSE Null

\* The mount effect skipped a black first cell.
C16_Witness ==
  /\ last.op = "mount" /\ focus # Null /\ focus > 0
  /\ flatGrid[0] = "#"

\* cell i starts a run along d: it is open, has no open cell before it and has
\* an open cell after it
startsRun(i, d) ==
  flatGrid[i] # "#" /\ prevInRun(i, d) = Null /\ nextInRun(i, d) # Null
starters == {i \in DOMAIN flatGrid : startsRun(i, "across") \/ startsRun(i, "down")}

\* the run the numbering records as starting at cell i along d, <<>> if none
recordedRun(i, d) ==
  LET n == numbering.numbers[i]
      flag == IF d = "across" THEN numbering.startsAcross[i] ELSE numbering.startsDown[i]
  IN  IF flag /\ n \in runNumbers(d) THEN runMap(d)[n] ELSE <<>>

\* C17: the numbers are 1, 2, 3, ... in row-major order over exactly the
\* cells that start a run: one number for a cell that starts two runs, none
\* for any other cell.
C17_NumbersInScanOrder ==
  \A i \in DOMAIN flatGrid :
    numbering.numbers[i] =
      IF i \in starters THEN Cardinality({j \in starters : j <= i}) ELSE Null

\* A cell that starts both an across and a down run carries a number past 1.
C17_Witness ==
  /\ mounted
  /\ \E i \in DOMAIN flatGrid :
       /\ startsRun(i, "across") /\ startsRun(i, "down")
       /\ numbering.numbers[i] > 1

\* C18: a run along d is recorded as starting at cell i exactly when i starts
\* a run along d by the layout; the recorded run is then the cells of the
\* maximal line of open cells from i along d, in order, within the row for
\* an across run.  The maps hold no other run.
C18_RunsRecordedAtStarts ==
  \A d \in Dirs :
    /\ \A i \in DOMAIN flatGrid :
         LET run == recordedRun(i, d)
             step == IF d = "across" THEN 1 ELSE W
         IN  /\ (Len(run) # 0) <=> startsRun(i, d)
             /\ Len(run) # 0 =>
                  /\ Len(run) = Cardinality(runThrough(i, d))
                  /\ \A k \in 1 .. Len(run) :
                       run[k] = i + (k - 1) * step /\ run[k] \in runThrough(i, d)
    /\ runNumbers(d) = {numbering.numbers[i] : i \in {j \in DOMAIN flatGrid : startsRun(j, d)}}

\* An across run ends in the last column and the next row begins with an
\* open cell.
C18_Witness ==
  /\ mounted
  /\ \E i \in DOMAIN flatGrid :
       LET run == recordedRun(i, "across")
       IN  /\ Len(run) > 1
           /\ run[Len(run)] % W = W - 1
           /\ run[Len(run)] + 1 \in DOMAIN flatGrid
           /\ flatGrid[run[Len(run)] + 1] # "#"

\* an open cell with no open neighbour on any of its four sides
isolated(i) ==
  \A side \in {"left", "right", "up", "down"} : openNeighbour(i, side) = Null
inSomeRun(i) ==
  \E d \in Dirs : \E n \in runNumbers(d) : i \in cellsOf(runMap(d)[n])

\* C19: every open cell is in a recorded run, across or down, except an open
\* cell with no open neighbour, which is in no run and has no number.
C19_OpenCellsInRuns ==
  \A i \in openCells :
    IF isolated(i) THEN ~inSomeRun(i) /\ numbering.numbers[i] = Null
    ELSE inSomeRun(i)

\* The layout has an isolated open cell and a down run of three cells.
C19_Witness ==
  /\ mounted
  /\ \E i \in openCells : isolated(i)
  /\ \E n \in runNumbers("down") : Len(runMap("down")[n]) > 2

\* C20: runAt(i, d) is the recorded run of direction d that has the open cell
\* i as a member, a sequence that contains i; it is empty when i is unset and
\* when no run of direction d passes through i.
C20_RunAtContains ==
  \A d \in Dirs :
    /\ runAt(Null, d) = <<>>
    /\ \A i \in openCells :
         LET n == runNumberOf(i, d)
         IN  /\ n # Null => (runAt(i, d) = runMap(d)[n] /\ i \in cellsOf(runAt(i, d)))
             /\ ~hasRunAt(i, d) => runAt(i, d) = <<>>
             /\ n = Null => ~hasRunAt(i, d)

\* A click focused a cell past the start of a down run, with no across run
\* through it: runAt found the down run from inside it.
C20_Witness ==
  /\ last.op = "selectCell" /\ last.moved /\ last.idx = focus
  /\ dir = "down" /\ prevInRun(focus, "down") # Null
  /\ Len(runAt(focus, "down")) > 2
  /\ Len(runAt(focus, "across")) = 0

\* the buffer is shorter than the header and the two grids its header names
tooShort(bytes) ==
  \/ Len(bytes) < HeaderSize
  \/ Len(bytes) < HeaderSize + 2 * byteAt(bytes, OffWidth) * byteAt(bytes, OffHeight)

\* C21: the decoder fails, and gives no puzzle, on every buffer shorter than
\* 0x34 + 2 * width * height bytes.
C21_ShortBufferFails ==
  (router.decoded # "" /\ tooShort(router.buf)) =>
    (router.decoded = "threw" /\ ~router.hasPuzzle)

\* the run starts of the loaded layout, and the place of the start (i, d) in
\* the row-major order that takes the across start of a cell before its down
\* start
runStarts == {s \in (DOMAIN flatGrid) \X Dirs : startsRun(s[1], s[2])}
placeOf(i, d) ==
  Cardinality({s \in runStarts : s[1] < i \/ (s[1] = i /\ s[2] = "across" /\ d = "down")}) + 1
cluesLoaded(d) == IF d = "across" THEN puzzle.clues.across ELSE puzzle.clues.down

\* C22: the decoder gives the clue fields out by position: the k-th run start
\* of the row-major scan (across before down on one cell) carries the k-th
\* clue field of the file, and each clue carries the number of its start cell.
C22_CluesByPosition ==
  (router.engine /\ ~tooShort(router.buf)) =>
    \A d \in Dirs :
      /\ Len(cluesLoaded(d)) = Cardinality({s \in runStarts : s[2] = d})
      /\ \A i \in DOMAIN flatGrid :
           startsRun(i, d) =>
             LET j == Cardinality({s \in runStarts : s[2] = d /\ s[1] <= i})
                 k == placeOf(i, d)
             IN  /\ cluesLoaded(d)[j].num = numbering.numbers[i]
                 /\ k <= router.fields => cluesLoaded(d)[j].text = fieldText(k)

\* A loaded grid whose first cell starts both runs: the second across clue
\* carries the fourth field and the second down clue the third.
C22_Witness ==
  /\ router.engine /\ mounted /\ ~tooShort(router.buf)
  /\ Len(puzzle.clues.across) = 2 /\ Len(puzzle.clues.down) = 2
  /\ puzzle.clues.across[2].text = <<"d">>
  /\ puzzle.clues.down[2].text = <<"c">>

\* a settled load has a puzzle or an error, not both, not neither, and is no
\* longer loading; the engine runs only on the puzzle the decoder returned,
\* after the load has settled without an error
loadOutcome ==
  /\ ~(router.hasPuzzle /\ router.error # "")
  /\ router.phase = "settled" =>
       (~router.loading /\ (router.hasPuzzle \/ router.error # ""))
  /\ router.engine =>
       /\ router.phase = "settled" /\ router.hasPuzzle /\ router.error = ""
       /\ router.decoded = "returned"
       /\ router.json = puzToPuzzle(router.buf).json
       /\ puzzle.width = router.json.width /\ puzzle.height = router.json.height

\* the load is over: the promise chain has run to its end, or the shell shows
loadOver == router.phase = "settled" \/ view = "shell" \/ router.engine

\* C23: in play mode every load that settles does so with a puzzle or with an
\* error message, never both and never neither, and with loading false; the
\* engine is started only on a decoded puzzle, never during the load or
\* after it failed.
C23_LoadSettlesOneWay ==
  /\ loadOutcome
  /\ loadOver => (router.phase = "settled" /\ ~router.loading)

\* The load settled with a puzzle and the engine runs on it.
C23_Witness ==
  /\ router.phase = "settled" /\ router.engine /\ mounted
  /\ focus # Null

\* C24: whatever keys, clicks, clue clicks, checks, reveals and clearings
\* came before, the focus is unset or the index of an open cell of the grid.
C24_FocusOnOpenCell ==
  focus = Null \/ (focus \in 0 .. W * H - 1 /\ flatGrid[focus] # "#")

\* An arrow key was pressed towards a black cell of the grid, after letters
\* were entered, and the focus stayed on its open cell.
C24_Witness ==
  /\ last.op = "handleKey" /\ last.key \in ArrowKeys /\ ~last.moved
  /\ focus # Null
  /\ focus + moveDelta(last.key) \in 0 .. W * H - 1
  /\ flatGrid[focus + moveDelta(last.key)] = "#"
  /\ letterCount(cells) > 0

\* C25: cells is as long as the layout, and holds the black marker on the
\* black cells of the layout and nowhere else, whatever was typed, deleted,
\* checked, revealed or cleared.
C25_BlackCellsKept ==
  /\ DOMAIN cells = 0 .. W * H - 1
  /\ \A i \in DOMAIN cells : (cells[i] = "#") <=> (flatGrid[i] = "#")

\* The grid of a puzzle with a black cell was cleared when it held a letter.
C25_Witness ==
  /\ last.op = "clearAll" /\ last.ch \in {"A", "B"}
  /\ \E i \in DOMAIN flatGrid : flatGrid[i] = "#"
  /\ letterCount(cells) = 0

\* the keys the claim counts as handled, and those of them that edit
claimedKeys == ArrowKeys \cup LetterKeys \cup {" ", "Tab", "Enter", "Backspace", "Delete"}
editKeys == LetterKeys \cup {"Backspace", "Delete"}

\* the step is a navigation: a key that does not edit, a jump, a click on a
\* cell or on a clue
navigation ==
  \/ last'.op = "handleKey" /\ last'.key \notin editKeys
  \/ last'.op \in {"jumpToNextRun", "selectCell", "clickClue"}

\* C26: arrows, Space, Tab, Shift+Tab, Enter, a click on a cell, a click on
\* a clue and every key outside the handled set leave cells as they were,
\* and a key outside the handled set leaves focus and direction too.
C26_NavigationKeepsCells ==
  [][ /\ navigation => cells' = cells
      /\ (last'.op = "handleKey" /\ last'.key \notin claimedKeys) =>
            (cells' = cells /\ focus' = focus /\ dir' = dir) ]_vars

\* A key outside the handled set was pressed on a grid that holds letters,
\* with the focus set.
C26_Witness ==
  /\ last.op = "handleKey" /\ last.key = "Escape"
  /\ focus # Null /\ letterCount(cells) > 1

====
